---- MODULE Spec2Model ----
(***************************************************************************)
(* Model of gen_msix_xml.py: a one-shot script that resolves a code        *)
(* signing certificate subject, stages two logo files, writes              *)
(* AppxManifest.xml and, on request, an AppInstaller descriptor padded to  *)
(* 4096 bytes.                                                             *)
(*                                                                         *)
(* A file's bytes are kept run-length encoded: a sequence of segments      *)
(* [b, n, doc], n bytes of kind b.  An "xml" segment is the serialisation  *)
(* of the document doc; "\n" and " " segments are padding bytes.  Strings  *)
(* whose characters matter (the certificate subject) are sequences of      *)
(* one-character strings; the other attribute strings of a document only   *)
(* count through their total length (text_len).                            *)
(*                                                                         *)
(* written, xml_bytes and fs_start are history variables: the documents    *)
(* this run has written, the descriptor's bytes as tree.write left them,   *)
(* and the files as the run found them.                                    *)
(***************************************************************************)
EXTENDS Integers, Sequences, FiniteSets, TLC

VARIABLES parsed_args, manifest, cert_store, logo_dir, dest_dir,
          fs, assets, pc, publisher, queried, selected, written,
          file_size, xml_bytes, fs_start

vars == <<parsed_args, manifest, cert_store, logo_dir, dest_dir,
          fs, assets, pc, publisher, queried, selected, written,
          file_size, xml_bytes, fs_start>>

inputs == <<parsed_args, manifest, cert_store, logo_dir, dest_dir>>

(***************************************************************************)
(* Bounds of the model.                                                    *)
(***************************************************************************)
MaxSubjLen == 2
MaxCerts == 2
MaxTime == 3

(***************************************************************************)
(* Strings.                                                                *)
(***************************************************************************)
Chars == {"A", "\"", "&", "<", ">"}

RECURSIVE StringsOfLen(_)
StringsOfLen(n) ==
    IF n = 0 THEN {<< >>}
    ELSE {Append(s, c) : s \in StringsOfLen(n - 1), c \in Chars}

Subjects == UNION {StringsOfLen(n) : n \in 0..MaxSubjLen}

(***************************************************************************)
(* ElementTree serialisation of an attribute value (tree.write).  Each     *)
(* character becomes one token: itself, or the entity that replaces it.    *)
(***************************************************************************)
EscapeCharNoQuote(c) ==
    CASE c = "&" -> "&amp;"
      [] c = "<" -> "&lt;"
      [] c = ">" -> "&gt;"
      [] OTHER -> c

EscapeChar(c) ==
    CASE c = "&" -> "&amp;"
      [] c = "<" -> "&lt;"
      [] c = ">" -> "&gt;"
      [] c = "\"" -> "&quot;"
      [] OTHER -> c

EscapeAttrib(text) == [i \in 1..Len(text) |-> EscapeChar(text[i])]

TokenLen(t) ==
    CASE t = "&amp;" -> 5
      [] t = "&lt;" -> 4
      [] t = "&gt;" -> 4
      [] t = "&quot;" -> 6
      [] OTHER -> 1

RECURSIVE SerialLen(_)
SerialLen(tokens) ==
    IF tokens = << >> THEN 0
    ELSE TokenLen(Head(tokens)) + SerialLen(Tail(tokens))

(***************************************************************************)
(* Documents.  A tree is what gen_appx_manifest / gen_appx_installer       *)
(* build; Serialize is what tree.write puts in the file.                   *)
(***************************************************************************)
NoDoc ==
    [kind |-> "none", publisher |-> << >>, on_launch |-> << >>,
     children |-> << >>, text_len |-> 0]

LowerStr(b) == IF b THEN "true" ELSE "false"

gen_appx_manifest(app_spec) ==
    [kind |-> "Package",
     publisher |-> app_spec.cert_publisher,
     on_launch |-> << >>,
     children |-> << >>,
     text_len |-> app_spec.text_len]

OnLaunch == [tag |-> "OnLaunch", text |-> ""]
AutomaticBackgroundTask == [tag |-> "AutomaticBackgroundTask", text |-> ""]
ForceUpdateFromAnyVersion == [tag |-> "ForceUpdateFromAnyVersion", text |-> "true"]

gen_appx_installer_swapped(app_spec, installer_spec) ==
    [kind |-> "AppInstaller",
     publisher |-> app_spec.cert_publisher,
     on_launch |-> <<LowerStr(installer_spec.show_prompt),
                     LowerStr(installer_spec.update_blocks_activation)>>,
     children |-> <<OnLaunch>>
                  \o (IF installer_spec.force_update_from_any_version
                      THEN <<AutomaticBackgroundTask>> ELSE << >>)
                  \o (IF installer_spec.automatic_background_task
                      THEN <<ForceUpdateFromAnyVersion>> ELSE << >>),
     text_len |-> installer_spec.text_len]

gen_appx_installer(app_spec, installer_spec) ==
    [kind |-> "AppInstaller",
     publisher |-> app_spec.cert_publisher,
     on_launch |-> <<LowerStr(installer_spec.show_prompt),
                     LowerStr(installer_spec.update_blocks_activation)>>,
     children |-> <<OnLaunch>>
                  \o (IF installer_spec.automatic_background_task
                      THEN <<AutomaticBackgroundTask>> ELSE << >>)
                  \o (IF installer_spec.force_update_from_any_version
                      THEN <<ForceUpdateFromAnyVersion>> ELSE << >>),
     text_len |-> installer_spec.text_len]

Serialize(tree) == [tree EXCEPT !.publisher = EscapeAttrib(@)]

(***************************************************************************)
(* Size in bytes of a serialised document: the fixed markup, plus the      *)
(* attribute values, plus the optional elements.                           *)
(***************************************************************************)
ManifestTemplateSize == 1294
InstallerTemplateSize == 353
AbtElementSize == 32
ForceElementSize == 64

StrLen(s) == IF s = "true" THEN 4 ELSE 5

RECURSIVE ChildrenSize(_)
ChildrenSize(children) ==
    IF children = << >> THEN 0
    ELSE (CASE Head(children).tag = "AutomaticBackgroundTask" -> AbtElementSize
            [] Head(children).tag = "ForceUpdateFromAnyVersion" -> ForceElementSize
            [] OTHER -> 0)
         + ChildrenSize(Tail(children))

XmlSize(doc) ==
    IF doc.kind = "Package"
    THEN ManifestTemplateSize + doc.text_len + SerialLen(doc.publisher)
    ELSE InstallerTemplateSize + doc.text_len + SerialLen(doc.publisher)
         + StrLen(doc.on_launch[1]) + StrLen(doc.on_launch[2])
         + ChildrenSize(doc.children)

(***************************************************************************)
(* Files.                                                                  *)
(***************************************************************************)
ManifestName == "AppxManifest.xml"
FileNames == {"AppxManifest.xml", "App.appinstaller"}

Seg(b, n, doc) == [b |-> b, n |-> n, doc |-> doc]
XmlSeg(doc) == Seg("xml", XmlSize(doc), doc)

NoFile == [exists |-> FALSE, bytes |-> << >>]

RECURSIVE BytesLen(_)
BytesLen(bytes) ==
    IF bytes = << >> THEN 0 ELSE Head(bytes).n + BytesLen(Tail(bytes))

FileSize(f) == BytesLen(f.bytes)

Unlink(fsys, path) == [fsys EXCEPT ![path] = NoFile]

TreeWriteAppend(fsys, path, tree) ==
    [fsys EXCEPT ![path] =
        [exists |-> TRUE, bytes |-> @.bytes \o <<XmlSeg(Serialize(tree))>>]]

TreeWrite(fsys, path, tree) ==
    [fsys EXCEPT ![path] =
        [exists |-> TRUE, bytes |-> <<XmlSeg(Serialize(tree))>>]]

AppendBytes(fsys, path, bytes) ==
    [fsys EXCEPT ![path] = [exists |-> TRUE, bytes |-> @.bytes \o bytes]]

file_pad_limit == 4096

Spaces(n) == IF n > 0 THEN <<Seg(" ", n, NoDoc)>> ELSE << >>

PadBytesOffByOne(size) ==
    <<Seg("\n", 1, NoDoc)>> \o Spaces(file_pad_limit - size)

PadBytes(size) ==
    <<Seg("\n", 1, NoDoc)>> \o Spaces((file_pad_limit - 1) - size)

(***************************************************************************)
(* The certificate store and the PowerShell query of get_cert_subject.     *)
(* A certificate is [nb, na, subject] (NotBefore, NotAfter, Subject); its  *)
(* position in the store stands for its thumbprint.  cert_store.tie is the *)
(* order sort leaves certificates of equal NotAfter in, which PowerShell    *)
(* does not fix.                                                           *)
(***************************************************************************)
CertSubjects == {<<"A">>, <<"\"", "&">>}

Certs == {c \in [nb : 0..MaxTime, na : 0..MaxTime, subject : CertSubjects] :
             c.nb < c.na}

RECURSIVE SeqsUpTo(_, _)
SeqsUpTo(S, n) ==
    IF n = 0 THEN {<< >>}
    ELSE LET shorter == SeqsUpTo(S, n - 1)
         IN  shorter \cup {Append(q, x) : q \in {r \in shorter : Len(r) = n - 1},
                                          x \in S}

Stores == SeqsUpTo(Certs, MaxCerts)

FilterValidCerts(certs, now) ==
    {i \in DOMAIN certs : certs[i].nb < now /\ certs[i].na > now}

SetMin(S) == CHOOSE x \in S : \A y \in S : x <= y
SetMax(S) == CHOOSE x \in S : \A y \in S : y <= x

SortNotAfterFirst(certs, valid, tie) ==
    LET earliest == {i \in valid : \A j \in valid : certs[i].na <= certs[j].na}
    IN  IF tie = "first" THEN SetMin(earliest) ELSE SetMax(earliest)

SortNotAfterLast(certs, valid, tie) ==
    LET latest == {i \in valid : \A j \in valid : certs[j].na <= certs[i].na}
    IN  IF tie = "first" THEN SetMin(latest) ELSE SetMax(latest)

Line(field, cert, text) == [field |-> field, cert |-> cert, text |-> text]

PwshOutput(cs) ==
    LET valid == FilterValidCerts(cs.certs, cs.now)
    IN  IF valid = {} THEN << >>
        ELSE LET cert == SortNotAfterLast(cs.certs, valid, cs.tie)
             IN  <<Line("FriendlyName", cert, << >>),
                   Line("Thumbprint", cert, << >>),
                   Line("Subject", cert, cs.certs[cert].subject)>>

(***************************************************************************)
(* Run state.                                                              *)
(***************************************************************************)
NoArg == [given |-> FALSE, value |-> << >>]
Arg(v) == [given |-> TRUE, value |-> v]

NoPublisher == [resolved |-> FALSE, value |-> << >>]
Resolved(v) == [resolved |-> TRUE, value |-> v]

NoAssets == [dir |-> FALSE, logo_44x44 |-> FALSE, logo_150x150 |-> FALSE]

Truthy(arg) == arg.given /\ arg.value # << >>

app == [cert_publisher |-> publisher.value, text_len |-> manifest.app_text_len]

installer ==
    [show_prompt |-> manifest.show_prompt,
     update_blocks_activation |-> manifest.update_blocks_activation,
     automatic_background_task |-> manifest.automatic_background_task,
     force_update_from_any_version |-> manifest.force_update_from_any_version,
     text_len |-> manifest.installer_text_len]

app_installer_path == manifest.installer_name

Abort == pc' = "aborted"

(***************************************************************************)
(* get_cert_subject: the explicit subject when it is truthy, else the      *)
(* third output line of the store query.                                   *)
(***************************************************************************)
TruthyIgnored(arg) == FALSE

ArgTruthy(arg) == Truthy(arg)

get_cert_subject ==
    /\ pc = "cert"
    /\ IF ArgTruthy(parsed_args.cert_subject)
       THEN /\ publisher' = Resolved(parsed_args.cert_subject.value)
            /\ pc' = "logos"
            /\ UNCHANGED <<queried, selected>>
       ELSE /\ queried' = queried + 1
            /\ LET pwsh_cert_output == PwshOutput(cert_store)
               IN  IF cert_store.pwsh_ok /\ Len(pwsh_cert_output) = 3
                   THEN /\ publisher' = Resolved(pwsh_cert_output[3].text)
                        /\ selected' = pwsh_cert_output[3].cert
                        /\ pc' = "logos"
                   ELSE /\ Abort
                        /\ UNCHANGED <<publisher, selected>>
    /\ UNCHANGED <<inputs, fs, assets, written, file_size, xml_bytes, fs_start>>

(***************************************************************************)
(* setup_app_logos: mkdir msix_assets, then the three assertions, copying  *)
(* each logo as soon as it is found.  LogoFailure names the step that      *)
(* stops it.                                                               *)
(***************************************************************************)
LogoFailureUnchecked150(dest, ld) ==
    CASE dest # "dir" -> "mkdir"
      [] ~ld.is_dir -> "logo_dir"
      [] ~ld.logo_44x44 -> "logo_44x44"
      [] OTHER -> "none"

LogoFailure(dest, ld) ==
    CASE dest # "dir" -> "mkdir"
      [] ~ld.is_dir -> "logo_dir"
      [] ~ld.logo_44x44 -> "logo_44x44"
      [] ~ld.logo_150x150 -> "logo_150x150"
      [] OTHER -> "none"

setup_app_logos ==
    /\ pc = "logos"
    /\ LET failure == LogoFailure(dest_dir, logo_dir)
       IN  /\ assets' =
                [dir |-> assets.dir \/ failure # "mkdir",
                 logo_44x44 |-> assets.logo_44x44
                                \/ failure \in {"logo_150x150", "none"},
                 logo_150x150 |-> assets.logo_150x150 \/ failure = "none"]
           /\ IF failure = "none" THEN pc' = "dest" ELSE Abort
    /\ UNCHANGED <<inputs, fs, publisher, queried, selected, written,
                   file_size, xml_bytes, fs_start>>

AssertDestDir ==
    /\ pc = "dest"
    /\ IF dest_dir = "dir" THEN pc' = "manifest" ELSE Abort
    /\ UNCHANGED <<inputs, fs, assets, publisher, queried, selected, written,
                   file_size, xml_bytes, fs_start>>

(***************************************************************************)
(* The manifest emission block.                                            *)
(***************************************************************************)
ManifestRequestedAlways == TRUE

ManifestRequested == ~parsed_args.no_manifest

EmitManifest ==
    /\ pc = "manifest"
    /\ IF ManifestRequested
       THEN /\ fs' = TreeWrite(fs, ManifestName, gen_appx_manifest(app))
            /\ written' = written \cup {"AppxManifest"}
       ELSE UNCHANGED <<fs, written>>
    /\ pc' = "installer"
    /\ UNCHANGED <<inputs, assets, publisher, queried, selected, file_size,
                   xml_bytes, fs_start>>

(***************************************************************************)
(* The installer emission block: unlink, tree.write, then the padding.     *)
(* An empty last URI segment makes the path the destination directory,     *)
(* which unlink refuses.                                                   *)
(***************************************************************************)
WriteInstallerFileAppend(fsys, path, tree) == TreeWriteAppend(fsys, path, tree)

WriteInstallerFile(fsys, path, tree) == TreeWrite(Unlink(fsys, path), path, tree)

EmitInstaller ==
    /\ pc = "installer"
    /\ IF ~parsed_args.gen_installer
       THEN /\ pc' = "done"
            /\ UNCHANGED <<fs, written, xml_bytes>>
       ELSE IF app_installer_path = ""
       THEN /\ Abort
            /\ UNCHANGED <<fs, written, xml_bytes>>
       ELSE /\ fs' = WriteInstallerFile(fs, app_installer_path,
                                        gen_appx_installer(app, installer))
            /\ xml_bytes' = fs'[app_installer_path].bytes
            /\ written' = written \cup {"AppInstaller"}
            /\ pc' = "pad"
    /\ UNCHANGED <<inputs, assets, publisher, queried, selected, file_size,
                   fs_start>>

SizeAssertionOff(size) == TRUE

SizeAssertionInclusive(size) == size <= file_pad_limit

SizeAssertion(size) == size < file_pad_limit

PadInstaller ==
    /\ pc = "pad"
    /\ file_size' = FileSize(fs[app_installer_path])
    /\ IF SizeAssertion(file_size')
       THEN /\ fs' = AppendBytes(fs, app_installer_path, PadBytes(file_size'))
            /\ written' = written \cup {"padding"}
            /\ pc' = "done"
       ELSE /\ Abort
            /\ UNCHANGED <<fs, written>>
    /\ UNCHANGED <<inputs, assets, publisher, queried, selected, xml_bytes,
                   fs_start>>

(***************************************************************************)
(* The script is started again, with the same arguments and environment,   *)
(* on the files the previous run left.                                     *)
(***************************************************************************)
RunStart ==
    /\ pc = "cert"
    /\ publisher = NoPublisher
    /\ queried = 0
    /\ selected = 0
    /\ written = {}
    /\ file_size = 0
    /\ xml_bytes = << >>
    /\ fs_start = fs

Rerun ==
    /\ pc \in {"done", "aborted"}
    /\ pc' = "cert"
    /\ publisher' = NoPublisher
    /\ queried' = 0
    /\ selected' = 0
    /\ written' = {}
    /\ file_size' = 0
    /\ xml_bytes' = << >>
    /\ fs_start' = fs
    /\ UNCHANGED <<inputs, fs, assets>>

Next ==
    \/ get_cert_subject
    \/ setup_app_logos
    \/ AssertDestDir
    \/ EmitManifest
    \/ EmitInstaller
    \/ PadInstaller
    \/ Rerun

(***************************************************************************)
(* Initial states.                                                         *)
(***************************************************************************)
Old(n) == [exists |-> TRUE, bytes |-> <<Seg("old", n, NoDoc)>>]

TextLens == {40, 3733, 3734}

LogoDirs ==
    {ld \in [is_dir : BOOLEAN, logo_44x44 : BOOLEAN, logo_150x150 : BOOLEAN] :
        ~ld.is_dir => (~ld.logo_44x44 /\ ~ld.logo_150x150)}

AllLogos == [is_dir |-> TRUE, logo_44x44 |-> TRUE, logo_150x150 |-> TRUE]

EmptyFs == [n \in FileNames |-> NoFile]

InitialFs ==
    {f \in [FileNames -> {NoFile, Old(100), Old(file_pad_limit)}] :
        f[ManifestName] # Old(file_pad_limit)}

LongLived == [nb |-> 0, na |-> MaxTime, subject |-> <<"\"", "&">>]

Init ==
    /\ parsed_args \in [cert_subject : {NoArg, Arg(<<"A">>)},
                        no_manifest : BOOLEAN,
                        gen_installer : BOOLEAN]
    /\ manifest \in [show_prompt : BOOLEAN,
                     update_blocks_activation : {TRUE},
                     automatic_background_task : BOOLEAN,
                     force_update_from_any_version : BOOLEAN,
                     installer_name : FileNames \cup {""},
                     installer_text_len : TextLens,
                     app_text_len : {60}]
    /\ cert_store \in [certs : {<< >>, <<LongLived>>}, now : {1},
                       tie : {"last"}, pwsh_ok : BOOLEAN]
    /\ logo_dir \in LogoDirs
    /\ dest_dir \in {"dir", "absent"}
    /\ fs \in (IF dest_dir = "dir" THEN InitialFs ELSE {EmptyFs})
    /\ assets = NoAssets
    /\ RunStart

Spec == Init /\ [][Next]_vars

FewStores == {<< >>, <<LongLived>>}

InitCert ==
    /\ parsed_args \in [cert_subject : {NoArg} \cup {Arg(s) : s \in Subjects},
                        no_manifest : {FALSE},
                        gen_installer : {TRUE}]
    /\ manifest = [show_prompt |-> TRUE,
                   update_blocks_activation |-> FALSE,
                   automatic_background_task |-> TRUE,
                   force_update_from_any_version |-> FALSE,
                   installer_name |-> "App.appinstaller",
                   installer_text_len |-> 40,
                   app_text_len |-> 60]
    /\ cert_store \in [certs : Stores, now : 0..MaxTime,
                       tie : {"first", "last"}, pwsh_ok : BOOLEAN]
    /\ \/ parsed_args.cert_subject = NoArg /\ cert_store.pwsh_ok
       \/ cert_store.certs \in FewStores /\ cert_store.now = 1
          /\ cert_store.tie = "last"
    /\ logo_dir = AllLogos
    /\ dest_dir = "dir"
    /\ fs = EmptyFs
    /\ assets = NoAssets
    /\ RunStart

SpecCert == InitCert /\ [][Next]_vars

(***************************************************************************)
(* Properties.                                                             *)
(***************************************************************************)
InstallerEmitted == "AppInstaller" \in written

Newline == Seg("\n", 1, NoDoc)

\* C1: when the descriptor tree.write produced has s < 4096 bytes, the
\* padding step leaves 4096 bytes: the s bytes of XML unchanged, one
\* newline, then 4095 - s spaces (none when s = 4095).
C1_PaddedTo4096 ==
    (InstallerEmitted /\ pc \in {"done", "aborted"} /\ BytesLen(xml_bytes) < 4096)
    => LET s == BytesLen(xml_bytes)
           f == fs[app_installer_path]
       IN  /\ pc = "done"
           /\ f.exists
           /\ FileSize(f) = 4096
           /\ SubSeq(f.bytes, 1, Len(xml_bytes)) = xml_bytes
           /\ f.bytes[Len(xml_bytes) + 1] = Newline
           /\ IF s = 4095
              THEN Len(f.bytes) = Len(xml_bytes) + 1
              ELSE /\ Len(f.bytes) = Len(xml_bytes) + 2
                   /\ f.bytes[Len(xml_bytes) + 2] = Seg(" ", 4095 - s, NoDoc)

C1_Witness ==
    /\ pc = "done"
    /\ InstallerEmitted
    /\ BytesLen(xml_bytes) = 4095
    /\ "padding" \in written

\* C2: when the descriptor tree.write produced has 4096 bytes or more, the
\* run aborts, no padding byte is appended, and the file stays exactly as
\* tree.write left it.
C2_OversizeAborts ==
    (InstallerEmitted /\ pc \in {"done", "aborted"} /\ BytesLen(xml_bytes) >= 4096)
    => /\ pc = "aborted"
       /\ "padding" \notin written
       /\ fs[app_installer_path] = [exists |-> TRUE, bytes |-> xml_bytes]

C2_Witness ==
    /\ pc = "aborted"
    /\ InstallerEmitted
    /\ BytesLen(xml_bytes) = 4096
    /\ fs_start[app_installer_path].exists

LogoMissing ==
    ~logo_dir.is_dir \/ ~logo_dir.logo_44x44 \/ ~logo_dir.logo_150x150

\* C3: with the logo directory or either logo file missing, the run aborts
\* before any XML is written: AppxManifest.xml and the installer descriptor
\* stay as the run found them, whatever the flags.
C3_MissingLogoWritesNoXml ==
    LogoMissing
    => /\ fs = fs_start
       /\ written = {}
       /\ pc \in {"cert", "logos", "aborted"}

C3_Witness ==
    /\ pc = "aborted"
    /\ publisher.resolved
    /\ logo_dir.logo_44x44 /\ ~logo_dir.logo_150x150
    /\ assets.logo_44x44
    /\ ~parsed_args.no_manifest /\ parsed_args.gen_installer
    /\ fs[ManifestName].exists

ManifestUntouched == fs[ManifestName] = fs_start[ManifestName]

\* C4 as stated: a run with --no-manifest never touches AppxManifest.xml,
\* whether or not --gen-installer is passed.
C4_Original == parsed_args.no_manifest => ManifestUntouched

\* C4 as amended: a run with --no-manifest never touches AppxManifest.xml,
\* unless --gen-installer is passed and the descriptor's own file name, the
\* last segment of its URI, is AppxManifest.xml.
C4_NoManifestUntouched ==
    (parsed_args.no_manifest
     /\ ~(parsed_args.gen_installer /\ app_installer_path = ManifestName))
    => ManifestUntouched

C4_Witness ==
    /\ pc = "done"
    /\ parsed_args.no_manifest
    /\ InstallerEmitted
    /\ app_installer_path # ManifestName
    /\ fs[ManifestName] = Old(100)

(***************************************************************************)
(* What an XML reader gets back from a serialised attribute value: the     *)
(* entities resolved, and nothing at all if a raw quote, ampersand or      *)
(* less-than sign is left in it.                                           *)
(***************************************************************************)
ResolveEntity(t) ==
    CASE t = "&amp;" -> "&"
      [] t = "&lt;" -> "<"
      [] t = "&gt;" -> ">"
      [] t = "&quot;" -> "\""
      [] OTHER -> t

ReadAttrib(tokens) ==
    IF \E i \in DOMAIN tokens : tokens[i] \in {"\"", "&", "<"}
    THEN [ok |-> FALSE, value |-> << >>]
    ELSE [ok |-> TRUE,
          value |-> [i \in DOMAIN tokens |-> ResolveEntity(tokens[i])]]

IsXml(f) == f.exists /\ f.bytes # << >> /\ Head(f.bytes).b = "xml"

ExpectedSubject ==
    IF parsed_args.cert_subject.given /\ parsed_args.cert_subject.value # << >>
    THEN parsed_args.cert_subject.value
    ELSE cert_store.certs[selected].subject

C6_Original ==
    parsed_args.cert_subject.given
    => /\ queried = 0
       /\ pc \notin {"cert", "aborted"}
          => publisher = Resolved(parsed_args.cert_subject.value)

\* C6 as amended: whenever a non-empty --cert-subject is supplied, the
\* resolver returns it unchanged and the store is never queried.
C6_ExplicitSubjectSkipsStore ==
    (parsed_args.cert_subject.given /\ parsed_args.cert_subject.value # << >>)
    => /\ queried = 0
       /\ pc # "cert" => publisher = Resolved(parsed_args.cert_subject.value)

C6_Witness ==
    /\ pc = "done"
    /\ parsed_args.cert_subject.given
    /\ Len(parsed_args.cert_subject.value) = MaxSubjLen
    /\ cert_store.certs # << >>
    /\ queried = 0

InWindow(c) == c.nb < cert_store.now /\ cert_store.now < c.na

SomeCertInWindow == \E i \in DOMAIN cert_store.certs : InWindow(cert_store.certs[i])

NoExplicitSubject ==
    ~parsed_args.cert_subject.given \/ parsed_args.cert_subject.value = << >>

\* C7: with no certificate subject supplied, a subject is returned only
\* from a certificate whose window contains now (NotBefore < now <
\* NotAfter) and whose NotAfter is the latest among such certificates; when
\* the query fails or no certificate is in its window, the run aborts and
\* no subject is returned.
C7_LatestValidCertificate ==
    NoExplicitSubject
    => /\ publisher.resolved
          => /\ selected \in DOMAIN cert_store.certs
             /\ InWindow(cert_store.certs[selected])
             /\ \A j \in DOMAIN cert_store.certs :
                   InWindow(cert_store.certs[j])
                   => cert_store.certs[j].na <= cert_store.certs[selected].na
             /\ publisher.value = cert_store.certs[selected].subject
       /\ (pc # "cert" /\ (~SomeCertInWindow \/ ~cert_store.pwsh_ok))
          => (pc = "aborted" /\ ~publisher.resolved /\ written = {})
       /\ (pc # "cert" /\ SomeCertInWindow /\ cert_store.pwsh_ok)
          => publisher.resolved

C7_Witness ==
    /\ NoExplicitSubject
    /\ publisher.resolved
    /\ \E j \in DOMAIN cert_store.certs :
          /\ ~InWindow(cert_store.certs[j])
          /\ cert_store.certs[j].na > cert_store.certs[selected].na
          /\ cert_store.certs[j].subject # cert_store.certs[selected].subject

CertificateResolvable ==
    \/ ~NoExplicitSubject
    \/ cert_store.pwsh_ok /\ SomeCertInWindow

SuccessIsComplete ==
    pc = "done"
    => /\ CertificateResolvable /\ publisher.resolved
       /\ ~LogoMissing /\ dest_dir = "dir"
       /\ assets = [dir |-> TRUE, logo_44x44 |-> TRUE, logo_150x150 |-> TRUE]
       /\ (parsed_args.no_manifest <=> "AppxManifest" \notin written)
       /\ (~parsed_args.no_manifest
           /\ ~(parsed_args.gen_installer /\ app_installer_path = ManifestName))
          => /\ IsXml(fs[ManifestName])
             /\ Len(fs[ManifestName].bytes) = 1
             /\ Head(fs[ManifestName].bytes).doc.kind = "Package"
       /\ IF parsed_args.gen_installer
          THEN /\ written \cap {"AppInstaller", "padding"}
                    = {"AppInstaller", "padding"}
               /\ IsXml(fs[app_installer_path])
               /\ Head(fs[app_installer_path].bytes).doc.kind = "AppInstaller"
               /\ FileSize(fs[app_installer_path]) = 4096
          ELSE written \cap {"AppInstaller", "padding"} = {}

FailureStops ==
    /\ (pc = "cert" /\ ~CertificateResolvable) => pc' = "aborted"
    /\ (pc = "logos" /\ (LogoMissing \/ dest_dir # "dir")) => pc' = "aborted"
    /\ (pc = "pad" /\ FileSize(fs[app_installer_path]) >= 4096)
       => (pc' = "aborted" /\ fs' = fs)
    /\ pc = "aborted"
       => (pc' = "cert" /\ fs' = fs /\ assets' = assets /\ written' = {})

\* C8: success is reported only when every requested document was written
\* in full (AppxManifest.xml unless --no-manifest, the descriptor written
\* and padded to 4096 bytes with --gen-installer); a failed assertion or
\* store query aborts the run at that step, and after the abort no later
\* step of the run executes.
C8_NoPartialSuccess == [](SuccessIsComplete) /\ [][FailureStops]_vars

C8_Witness ==
    /\ pc = "done"
    /\ queried = 1
    /\ written = {"AppxManifest", "AppInstaller", "padding"}
    /\ app_installer_path # ManifestName
    /\ fs_start[app_installer_path] = Old(4096)

HasChild(doc, tag) == \E i \in DOMAIN doc.children : doc.children[i].tag = tag

EmittedInstallerDoc == Head(xml_bytes).doc

\* C9: an emitted installer descriptor has one empty AutomaticBackgroundTask
\* element under UpdateSettings exactly when the manifest's
\* AutomaticBackgroundTask is true, whatever ForceUpdateFromAnyVersion and
\* the OnLaunch attributes are.
C9_BackgroundTaskElement ==
    InstallerEmitted
    => /\ xml_bytes # << >>
       /\ Head(fs[app_installer_path].bytes) = Head(xml_bytes)
       /\ manifest.automatic_background_task
          <=> HasChild(EmittedInstallerDoc, "AutomaticBackgroundTask")
       /\ \A i, j \in DOMAIN EmittedInstallerDoc.children :
             (/\ EmittedInstallerDoc.children[i].tag = "AutomaticBackgroundTask"
              /\ EmittedInstallerDoc.children[j].tag = "AutomaticBackgroundTask")
             => (i = j /\ EmittedInstallerDoc.children[i].text = "")

C9_Witness ==
    /\ pc = "done"
    /\ InstallerEmitted
    /\ manifest.automatic_background_task
    /\ ~manifest.force_update_from_any_version
    /\ ~manifest.show_prompt
    /\ HasChild(Head(fs[app_installer_path].bytes).doc, "AutomaticBackgroundTask")
    /\ ~HasChild(Head(fs[app_installer_path].bytes).doc, "ForceUpdateFromAnyVersion")

SingleRunOnEmptyDestination ==
    LET tree == gen_appx_installer(app, installer)
        xml == XmlSeg(Serialize(tree))
    IN  [exists |-> TRUE,
         bytes |-> IF xml.n = 4095 THEN <<xml, Newline>>
                   ELSE <<xml, Newline, Seg(" ", 4095 - xml.n, NoDoc)>>]

\* C10: after any number of successful runs with --gen-installer on the
\* same inputs and destination, the descriptor is 4096 bytes and identical
\* to what one run on an empty destination produces; what an earlier run
\* or a stale file left never adds to it.
C10_InstallerIdempotent ==
    (pc = "done" /\ parsed_args.gen_installer)
    => /\ FileSize(fs[app_installer_path]) = 4096
       /\ fs[app_installer_path] = SingleRunOnEmptyDestination
       /\ file_size = Head(fs[app_installer_path].bytes).n

C10_Witness ==
    /\ pc = "done"
    /\ parsed_args.gen_installer
    /\ IsXml(fs_start[app_installer_path])
    /\ FileSize(fs_start[app_installer_path]) = 4096
    /\ fs[app_installer_path] = fs_start[app_installer_path]

====
